---- MODULE Spec2Model ----
(***************************************************************************)
(* Model of the FVM Home Assistant integration: the portal session         *)
(* (fvm_session.py), the controller (fvm_controller.py), the calendar      *)
(* entity (calendar.py) and the config/options flow (config_flow.py).      *)
(*                                                                         *)
(* Python values are modelled as tagged records:                           *)
(*   [t |-> "None"], [t |-> "bool", b |-> TRUE], [t |-> "num", n |-> 1],   *)
(*   [t |-> "str", s |-> <<"a","b">>] (a string is a sequence of           *)
(*   one-character strings), [t |-> "list", l |-> <<...>>],                *)
(*   [t |-> "obj", f |-> [key |-> value]].                                 *)
(* A call's outcome is [k |-> "return", v |-> value] or                    *)
(* [k |-> "raise", exc |-> "KeyError"].                                    *)
(* A naive datetime is an integer number of ticks, TicksPerDay ticks to a  *)
(* day, counted from day 0 = 0001-01-00 (date.toordinal() * TicksPerDay).  *)
(***************************************************************************)
EXTENDS Integers, Sequences, FiniteSets, TLC

\* ------------------------------------------------------------------ bounds
\* Clock resolution: how many instants of a day the model tells apart.
TicksPerDay == 2
\* Longest list of raw reading records drawn for the pure-function checks.
MaxLen == 3

\* ------------------------------------------------------- python value model
None == [t |-> "None"]
PyBool(b) == [t |-> "bool", b |-> b]
PyNum(n) == [t |-> "num", n |-> n]
PyStr(s) == [t |-> "str", s |-> s]
PyList(l) == [t |-> "list", l |-> l]
PyObj(f) == [t |-> "obj", f |-> f]

Return(v) == [k |-> "return", v |-> v]
Raise(e) == [k |-> "raise", exc |-> e]

\* bool(v): Python truth value testing.
Truthy(v) ==
    CASE v.t = "None" -> FALSE
      [] v.t = "bool" -> v.b
      [] v.t = "num"  -> v.n # 0
      [] v.t = "str"  -> Len(v.s) > 0
      [] v.t = "list" -> Len(v.l) > 0
      [] v.t = "obj"  -> DOMAIN v.f # {}
      [] OTHER        -> TRUE

\* v[key] for a string key: KeyError on a dict without the key, TypeError on
\* a value that is not a dict (None, bool and int are not subscriptable; a
\* str or list does not take a str index).
GetItem(v, key) ==
    IF v.t = "obj"
    THEN IF key \in DOMAIN v.f THEN Return(v.f[key]) ELSE Raise("KeyError")
    ELSE Raise("TypeError")

\* s[lo:hi] on a sequence, 0-based half-open, clamped to the length as
\* Python slicing does.
Slice(s, lo, hi) ==
    LET a == IF lo > Len(s) THEN Len(s) ELSE lo
        b == IF hi > Len(s) THEN Len(s) ELSE hi
    IN  IF b <= a THEN <<>> ELSE SubSeq(s, a + 1, b)

\* ------------------------------------------------------------------- dates
DigitChars == <<"0", "1", "2", "3", "4", "5", "6", "7", "8", "9">>

IsDigit(c) == \E i \in 1..10 : DigitChars[i] = c

DigitVal(c) == (CHOOSE i \in 1..10 : DigitChars[i] = c) - 1

IsLeap(y) == (y % 4 = 0) /\ ((y % 100 # 0) \/ (y % 400 = 0))

DaysInMonth(y, m) ==
    IF m = 2 THEN (IF IsLeap(y) THEN 29 ELSE 28)
    ELSE IF m \in {4, 6, 9, 11} THEN 30 ELSE 31

RECURSIVE DaysBeforeMonth(_, _)
DaysBeforeMonth(y, m) ==
    IF m <= 1 THEN 0 ELSE DaysBeforeMonth(y, m - 1) + DaysInMonth(y, m - 1)

\* date(y, m, d).toordinal()
ToOrdinal(y, m, d) ==
    LET p == y - 1
    IN  p * 365 + (p \div 4) - (p \div 100) + (p \div 400)
        + DaysBeforeMonth(y, m) + d

\* datetime(y, m, d): midnight of that day, or ValueError when the fields
\* are out of range.
MakeDatetime(y, m, d) ==
    IF y >= 1 /\ m \in 1..12 /\ d >= 1 /\ d <= DaysInMonth(y, m)
    THEN Return(ToOrdinal(y, m, d) * TicksPerDay)
    ELSE Raise("ValueError")

\* datetime.strptime(s, '%Y.%m.%d').  The format compiles to the regular
\* expression  (\d\d\d\d)\.(1[0-2]|0[1-9]|[1-9])\.(3[01]|[12]\d|0[1-9]|[1-9]| [1-9])
\* matched at the start of s; text left after the match is the ValueError
\* "unconverted data remains".
CharAt(s, i) == IF i >= 1 /\ i <= Len(s) THEN s[i] ELSE ""

TwoDigits(s, i) == IsDigit(CharAt(s, i)) /\ IsDigit(CharAt(s, i + 1))

\* The number written by the len digits of s from position i.
RECURSIVE Number(_, _, _)
Number(s, i, len) ==
    IF len = 0 THEN 0 ELSE Number(s, i, len - 1) * 10 + DigitVal(s[i + len - 1])

\* (\d\d\d\d)\.
YearMatches(s) ==
    Len(s) >= 5 /\ (\A i \in 1..4 : IsDigit(s[i])) /\ s[5] = "."

\* The length of the text (1[0-2]|0[1-9]|[1-9]) matches at position 6 with
\* a "." after it, 0 when none.
MonthLen(s) ==
    IF TwoDigits(s, 6) /\ CharAt(s, 8) = "." /\ Number(s, 6, 2) \in 1..12
    THEN 2
    ELSE IF IsDigit(CharAt(s, 6)) /\ CharAt(s, 6) # "0" /\ CharAt(s, 7) = "."
    THEN 1 ELSE 0

\* The length of the text (3[01]|[12]\d|0[1-9]|[1-9]| [1-9]) matches at
\* position p, 0 when none.
DayLen(s, p) ==
    IF TwoDigits(s, p) /\ Number(s, p, 2) \in 1..31
    THEN 2
    ELSE IF IsDigit(CharAt(s, p)) /\ CharAt(s, p) # "0" THEN 1
    ELSE IF CharAt(s, p) = " " /\ IsDigit(CharAt(s, p + 1)) /\ CharAt(s, p + 1) # "0"
    THEN 2 ELSE 0

DayValue(s, p, dlen) ==
    IF CharAt(s, p) = " " THEN DigitVal(s[p + 1]) ELSE Number(s, p, dlen)

StrpMatched(s, mlen, p, dlen) ==
    IF mlen = 0 \/ dlen = 0 THEN Raise("ValueError")
    ELSE IF p + dlen - 1 # Len(s) THEN Raise("ValueError")
    ELSE MakeDatetime(Number(s, 1, 4), Number(s, 6, mlen), DayValue(s, p, dlen))

StrpDay(s, mlen) == StrpMatched(s, mlen, 7 + mlen, DayLen(s, 7 + mlen))

StrpTime(s) ==
    IF ~YearMatches(s) THEN Raise("ValueError") ELSE StrpDay(s, MonthLen(s))


\* ------------------------------------------------------------- fvm_session
\* An HTML body is a sequence of lines, a line a sequence of pieces:
\*   Input(v): the text  <input name="__RequestVerificationToken" type="hidden" value="v" />
\*   Closer:   other text that ends in  " />   (say  <img src="x" />)
\*   Text:     text holding neither the element's opening nor  " />
Input(v) == [i |-> "input", v |-> v]
Closer == [i |-> "closer"]
Text == [i |-> "text"]

\* re.search('<input name="__RequestVerificationToken" type="hidden"
\* value="(.*)" />', text, flags=re.MULTILINE): the leftmost opening, then
\* the greedy (.*) runs to the last  " />  of the same line ("." matches no
\* newline).  The captured text is given as the run of pieces it spans:
\* <<Input(v)>> is exactly the value v.  No match is None.
FirstInput(line) ==
    CHOOSE a \in 1..Len(line) :
        line[a].i = "input" /\ \A n \in 1..(a - 1) : line[n].i # "input"

LastCloser(line) ==
    CHOOSE b \in 1..Len(line) :
        /\ line[b].i \in {"input", "closer"}
        /\ \A n \in (b + 1)..Len(line) : line[n].i \notin {"input", "closer"}

RECURSIVE re_search(_)
re_search(text) ==
    IF text = <<>> THEN None
    ELSE IF \A a \in 1..Len(Head(text)) : Head(text)[a].i # "input"
         THEN re_search(Tail(text))
         ELSE PyStr(SubSeq(Head(text), FirstInput(Head(text)), LastCloser(Head(text))))

\* group1, were a missing match taken as an empty token.
group1_lenient(m) == IF m = None THEN Return(PyStr(<<>>)) ELSE Return(m)

\* re.search(...).group(1): AttributeError on None.
group1(m) == IF m = None THEN Raise("AttributeError") ELSE Return(m)

verification_token(text) == group1(re_search(text))

\* A response body read as JSON: [json |-> value], or NotJson, on which
\* resp.json() raises.
Json(v) == [body |-> "json", json |-> v]
NotJson == [body |-> "other"]

json(resp) ==
    IF resp.body = "json" THEN Return(resp.json) ELSE Raise("ContentTypeError")

\* r succeeded: the value of r.v[key]; r raised: r.
Item(r, key) == IF r.k = "raise" THEN r ELSE GetItem(r.v, key)

\* a and b, a's evaluation having ended with a.
And(a, b) == IF a.k = "raise" \/ ~Truthy(a.v) THEN a ELSE b

\* login_success, were the nested flag left out.
login_success_outer(login_result) == GetItem(login_result, "Success")

\* login_result['Success'] and login_result['Object']['Success']
login_success(login_result) ==
    And(GetItem(login_result, "Success"),
        Item(GetItem(login_result, "Object"), "Success"))

\* post_login from the login POST's response on: resp.json(), then the
\* returned expression.
json_login_success(j) == IF j.k = "raise" THEN j ELSE login_success(j.v)

post_login_result(resp) == json_login_success(json(resp))

\* ---------------------------------------------------------- fvm_controller
ReadingTime(start, end, mode) == [start |-> start, end |-> end, mode |-> mode]

LocationAndMeter(location_name, location_id, meter_serial_number) ==
    [location_name |-> location_name, location_id |-> location_id,
     meter_serial_number |-> meter_serial_number]

\* ReadingTime(...) of the three evaluated arguments, the first that raised
\* otherwise.
reading_time_args(s, e, m) ==
    IF s.k = "raise" THEN s
    ELSE IF e.k = "raise" THEN e
    ELSE IF m.k = "raise" THEN m
    ELSE Return(ReadingTime(s.v, e.v, m.v))

\* x[lo:hi] of a str, then strptime; x is reading['LEOIDOSZAK'] evaluated.
strptime_slice(x, lo, hi) ==
    IF x.k = "raise" THEN x
    ELSE IF x.v.t # "str" THEN Raise("TypeError")
    ELSE StrpTime(Slice(x.v.s, lo, hi))

\* reading_time_of, were the end date cut at [11:21].
reading_time_of_21(reading) ==
    reading_time_args(strptime_slice(GetItem(reading, "LEOIDOSZAK"), 0, 10),
                      strptime_slice(GetItem(reading, "LEOIDOSZAK"), 11, 21),
                      GetItem(reading, "LEOMOD"))

\* One element of the list comprehension of get_dictation_and_reading_times:
\* ReadingTime(strptime(reading['LEOIDOSZAK'][:10], ...),
\*             strptime(reading['LEOIDOSZAK'][11:22], ...), reading['LEOMOD'])
reading_time_of(reading) ==
    reading_time_args(strptime_slice(GetItem(reading, "LEOIDOSZAK"), 0, 10),
                      strptime_slice(GetItem(reading, "LEOIDOSZAK"), 11, 22),
                      GetItem(reading, "LEOMOD"))

\* Cons, were an element that raises skipped.
Cons_skipping(h, r) ==
    IF h.k = "raise" THEN r
    ELSE IF r.k = "raise" THEN r
    ELSE Return(<<h.v>> \o r.v)

\* The list h.v, r.v ... of the evaluated elements h and r (the rest).
Cons(h, r) ==
    IF h.k = "raise" THEN h
    ELSE IF r.k = "raise" THEN r
    ELSE Return(<<h.v>> \o r.v)

\* The list comprehension: the first element that raises ends it.
RECURSIVE reading_times_of(_)
reading_times_of(readings) ==
    IF readings = <<>> THEN Return(<<>>)
    ELSE Cons(reading_time_of(Head(readings)), reading_times_of(Tail(readings)))

\* insert_by_start, were an equal key placed first.
RECURSIVE insert_before_equal(_, _)
insert_before_equal(sorted_list, r) ==
    IF sorted_list = <<>> THEN <<r>>
    ELSE IF Head(sorted_list).start < r.start
         THEN <<Head(sorted_list)>> \o insert_before_equal(Tail(sorted_list), r)
         ELSE <<r>> \o sorted_list

\* Where sorted() places one more element: after every element whose key is
\* not greater (sorted() is stable).
RECURSIVE insert_by_start(_, _)
insert_by_start(sorted_list, r) ==
    IF sorted_list = <<>> THEN <<r>>
    ELSE IF Head(sorted_list).start <= r.start
         THEN <<Head(sorted_list)>> \o insert_by_start(Tail(sorted_list), r)
         ELSE <<r>> \o sorted_list

\* sorted(list, key=lambda reading: reading.start)
RECURSIVE sorted_by_start(_)
sorted_by_start(list) ==
    IF list = <<>> THEN <<>>
    ELSE insert_by_start(sorted_by_start(SubSeq(list, 1, Len(list) - 1)),
                         list[Len(list)])

\* Iterating l, a list, with the comprehension's elements r.
sorted_readings(r) ==
    IF r.k = "raise" THEN r ELSE Return(PyList(sorted_by_start(r.v)))

readings_list(l) ==
    IF l.k = "raise" THEN l
    ELSE IF l.v.t # "list" THEN Raise("TypeError")
    ELSE sorted_readings(reading_times_of(l.v.l))

\* The return statement of get_dictation_and_reading_times, from the
\* session's reading_data on.
reading_times_result(reading_data) ==
    readings_list(Item(GetItem(reading_data, "DataModel"), "LeolvDiktIdoszakok"))

location_args(n, a, s) ==
    IF n.k = "raise" THEN n
    ELSE IF a.k = "raise" THEN a
    ELSE IF s.k = "raise" THEN s
    ELSE Return(LocationAndMeter(n.v, a.v, s.v))

\* location_of, were the identifier and the serial number taken from each
\* other's field.
location_of_swapped(location) ==
    location_args(GetItem(location, "FOGYH_MN"), GetItem(location, "SERGE"),
                  GetItem(location, "ANLAGE"))

location_of(location) ==
    location_args(GetItem(location, "FOGYH_MN"), GetItem(location, "ANLAGE"),
                  GetItem(location, "SERGE"))

RECURSIVE locations_of(_)
locations_of(records) ==
    IF records = <<>> THEN Return(<<>>)
    ELSE Cons(location_of(Head(records)), locations_of(Tail(records)))

as_list(r) == IF r.k = "raise" THEN r ELSE Return(PyList(r.v))

locations_list(l) ==
    IF l.k = "raise" THEN l
    ELSE IF l.v.t # "list" THEN Raise("TypeError")
    ELSE as_list(locations_of(l.v.l))

\* The return statement of get_locations_and_meters, from the session's
\* locations on.
locations_result(locations) ==
    locations_list(Item(GetItem(locations, "FogyHely"), "T_FOGYH"))

\* ---------------------------------------------------------------- calendar
MIN_TIME_BETWEEN_UPDATES == 7 * TicksPerDay

\* datetime.date(): the day of a naive datetime.
DateOf(dt) == dt \div TicksPerDay

\* timedelta.days of (a - b): timedelta keeps seconds in [0, 1 day), so days
\* is the floor.
Days(a, b) == (a - b) \div TicksPerDay

Max(a, b) == IF a >= b THEN a ELSE b
Min(a, b) == IF a <= b THEN a ELSE b

\* _get_event
get_event(reading_time) ==
    [start |-> DateOf(reading_time.start), end |-> DateOf(reading_time.end),
     description |-> reading_time.mode]

\* The loop of async_get_events over the stored reading times, the range
\* bounds being the naive local datetimes.
RECURSIVE events_between(_, _, _)
events_between(times, start_date, end_date) ==
    IF times = <<>> THEN <<>>
    ELSE LET reading_time == Head(times)
             latest_start == Max(start_date, reading_time.start)
             earliest_end == Min(end_date, reading_time.end)
             delta == Days(earliest_end, latest_start) + 1
             overlap == delta > 0
             rest == events_between(Tail(times), start_date, end_date)
         IN  IF overlap THEN <<get_event(reading_time)>> \o rest ELSE rest

\* start_date.astimezone(local_zone).replace(tzinfo=None): an aware datetime
\* [utc |-> instant, off |-> its own offset] shown on the local clock.
to_local_naive(aware, local_offset) == aware.utc + local_offset


\* ------------------------------------------------------------------- state
VARIABLES
    now,       \* the clock (utcnow), in ticks
    sessions,  \* live FvmCustomerServiceSession objects, by id:
               \* [open, exits, log]: the aiohttp connection is open, the
               \* number of __aexit__ calls, the requests sent on it
    ops,       \* running coroutines, by slot: [handler, pc, session, token,
               \* args, at, login, result, outcome]: the handler called with
               \* args at time at, its next step, its session, the token it
               \* holds, how post_login ended, how the "async with" block
               \* ended, how the handler ended
    entity,    \* the FvmReadingTimeCalendarEventDevice: [times, event,
               \* throttle, calls]: the stored reading times, the event, when
               \* the throttled update last ran, and (history) the times at
               \* which the entity called the controller
    fnIn,      \* pure-function checks: the argument drawn
    fnOut,     \* pure-function checks: the value computed
    hass       \* Home Assistant's data: [entries, controllers]: the config
               \* entries' passwords by username (their unique id) and
               \* hass.data[DOMAIN][DATA_CONTROLLER], the registered
               \* controllers' credentials by username

vars == <<now, sessions, ops, entity, fnIn, fnOut, hass>>

\* ------------------------------------------------ what the portal may answer
\* A failed exchange (connection error, timeout): aiohttp raises ClientError.
NetError == [body |-> "error"]
Html(text) == [body |-> "html", text |-> text]

Chars2(a, b) == PyStr(<<a, b>>)

PageOne(v) == << <<Text>>, <<Text, Input(v), Text>> >>
PageNone == << <<Text, Closer>>, <<Text>> >>
PageTwoOnLine(v, w) == << <<Input(v), Text, Input(w)>> >>
PageCloserAfter(v) == << <<Input(v), Closer, Text>> >>

RootResponses == {Html(<< <<Text>> >>), NetError}

LoginPages ==
    {Html(PageOne("a")), Html(PageNone), Html(PageTwoOnLine("a", "b")), NetError}

PrimingPages ==
    {Html(PageOne("b")), Html(PageNone), Html(PageCloserAfter("b")), NetError}

SuccessObj(b) == PyObj([Success |-> b])
LoginJson(a, b) == Json(PyObj([Success |-> a, Object |-> SuccessObj(b)]))

\* Login answers of the documented shape {Success: bool, Object: {Success: bool}}.
WellFormedLogins == {LoginJson(PyBool(a), PyBool(b)) : a, b \in BOOLEAN}

\* Login answers of any other shape.
MalformedLogins ==
    { Json(PyObj([Success |-> PyBool(FALSE)])),
      Json(PyObj([Success |-> PyBool(TRUE)])),
      Json(PyObj([Object |-> SuccessObj(PyBool(TRUE))])),
      Json(PyObj([Success |-> PyBool(TRUE), Object |-> None])),
      LoginJson(Chars2("n", "o"), PyBool(TRUE)),
      LoginJson(PyNum(0), PyBool(TRUE)),
      LoginJson(PyBool(TRUE), PyNum(1)),
      LoginJson(PyBool(TRUE), None),
      Json(None),
      NotJson }

LoginResponses == WellFormedLogins \cup MalformedLogins \cup {NetError}

Location(n, a, s) ==
    PyObj([FOGYH_MN |-> Chars2("N", n), ANLAGE |-> Chars2("A", a),
           SERGE |-> Chars2("S", s)])

LocationsJson(l) == Json(PyObj([FogyHely |-> PyObj([T_FOGYH |-> PyList(l)])]))

LocationsResponses ==
    { LocationsJson(<<Location("1", "1", "1"), Location("2", "2", "2")>>),
      LocationsJson(<<Location("2", "2", "2"), Location("1", "1", "1"),
                      Location("2", "2", "2")>>),
      LocationsJson(<<>>),
      LocationsJson(<<Location("1", "1", "1"), PyObj([ANLAGE |-> Chars2("A", "2")])>>),
      Json(PyObj([FogyHely |-> None])),
      NotJson, NetError }

\* n written with w decimal digits.
RECURSIVE Digits(_, _)
Digits(n, w) ==
    IF w = 0 THEN <<>> ELSE Digits(n \div 10, w - 1) \o <<DigitChars[(n % 10) + 1]>>

\* The text YYYY.MM.DD of a date.
Ymd(y, m, d) == Digits(y, 4) \o <<".">> \o Digits(m, 2) \o <<".">> \o Digits(d, 2)

\* A raw reading record {LEOIDOSZAK: "<from>-<to>", LEOMOD: mode}.
Reading(from, to, mode) ==
    PyObj([LEOIDOSZAK |-> PyStr(from \o <<"-">> \o to), LEOMOD |-> PyStr(<<mode>>)])

ReadingsJson(l) ==
    Json(PyObj([DataModel |-> PyObj([LeolvDiktIdoszakok |-> PyList(l)])]))

Jan1to5 == Reading(Ymd(2024, 1, 1), Ymd(2024, 1, 5), "D")
Feb1to5 == Reading(Ymd(2024, 2, 1), Ymd(2024, 2, 5), "L")
Jan1to9 == Reading(Ymd(2024, 1, 1), Ymd(2024, 1, 9), "L")
Feb30 == Reading(Ymd(2024, 2, 1), Ymd(2024, 2, 30), "D")

ReadingsResponses ==
    { ReadingsJson(<<Jan1to5, Feb1to5>>),
      ReadingsJson(<<Feb1to5, Jan1to9, Jan1to5>>),
      ReadingsJson(<<>>),
      ReadingsJson(<<Jan1to5, Feb30>>),
      Json(PyObj([DataModel |-> None])),
      NotJson, NetError }

\* The naive local datetime the clock starts at: 2024-01-10 00:00.
NowStart == ToOrdinal(2024, 1, 10) * TicksPerDay


\* Longest time the clock runs past NowStart, in days.
MaxDays == 8
\* Longest list of raw records with arbitrary date texts drawn.
MaxParseLen == 2
\* Coroutine slots of the specification Spec: its handlers run one at a time.
MainSlots == {1}

\* -------------------------------------------------- session methods, by step
NewSession == [open |-> TRUE, exits |-> 0, log |-> <<>>]

\* __aenter__: self._session = aiohttp.ClientSession()
aenter(ss, sid) ==
    [i \in DOMAIN ss \cup {sid} |-> IF i = sid THEN NewSession ELSE ss[i]]

\* aexit, were the connection closed on a normal exit only.
aexit_on_success(ss, sid, oc) ==
    IF oc.k = "raise" THEN ss
    ELSE [ss EXCEPT ![sid].open = FALSE, ![sid].exits = @ + 1]

\* __aexit__: hands the exit to the aiohttp session, which closes; oc is the
\* outcome the block is left with (exc_type, exc_val, exc_tb).
aexit(ss, sid, oc) ==
    [ss EXCEPT ![sid].open = FALSE, ![sid].exits = @ + 1]

\* A request sent on self._session and answered: the exchange is logged with
\* the answer and whether the session method raised on it.
send(ss, sid, request, resp, r) ==
    [ss EXCEPT ![sid].log =
        Append(@, [req |-> request, resp |-> resp, raised |-> (r.k = "raise")])]

\* get_root_page: the GET of ROOT_URL and response.read().
get_root_page(resp) ==
    IF resp = NetError THEN Raise("ClientError") ELSE Return(None)

\* post_login up to the token: the GET of the login page, response.text()
\* and the token search.
post_login_token(resp) ==
    IF resp = NetError THEN Raise("ClientError") ELSE verification_token(resp.text)

\* post_login from the POST on.
post_login_posted(resp) ==
    IF resp = NetError THEN Raise("ClientError") ELSE post_login_result(resp)

\* get_locations_and_serial_numbers: the GET and params_request.json().
get_locations_and_serial_numbers(resp) ==
    IF resp = NetError THEN Raise("ClientError") ELSE json(resp)

\* Session get_dictation_and_reading_times up to the token.
reading_times_token(resp) ==
    IF resp = NetError THEN Raise("ClientError") ELSE verification_token(resp.text)

\* Session get_dictation_and_reading_times from the POST on.
reading_times_posted(resp) ==
    IF resp = NetError THEN Raise("ClientError") ELSE json(resp)

\* ------------------------------------------------------ controller and flows
Goto(pc) == [pc |-> pc]
Exit(oc) == [pc |-> "exit", oc |-> oc]

\* controller_next, were the data fetched whatever post_login returned.
controller_next_unchecked(kind, stage, r) ==
    IF r.k = "raise" THEN Exit(r)
    ELSE CASE stage = "get_root_page" -> Goto("post_login_get")
           [] stage = "post_login" ->
                Goto(IF kind = "locations" THEN "locations_get" ELSE "priming_get")
           [] stage = "fetch" ->
                Exit(IF kind = "locations" THEN locations_result(r.v)
                     ELSE reading_times_result(r.v))

\* The body of the controller's "async with" block: what follows the
\* awaited session call `stage` having ended with r.  kind is "locations"
\* (get_locations_and_meters) or "readings" (get_dictation_and_reading_times).
controller_next(kind, stage, r) ==
    IF r.k = "raise" THEN Exit(r)
    ELSE CASE stage = "get_root_page" -> Goto("post_login_get")
           [] stage = "post_login" ->
                IF Truthy(r.v)
                THEN Goto(IF kind = "locations" THEN "locations_get" ELSE "priming_get")
                ELSE Exit(Return(None))
           [] stage = "fetch" ->
                Exit(IF kind = "locations" THEN locations_result(r.v)
                     ELSE reading_times_result(r.v))

FlowResult(type, why) == [t |-> "flow", type |-> type, why |-> why]

\* async_step_user / async_step_init with user_input given: what follows
\* post_login having ended with r.
flow_next(handler, r) ==
    IF r.k = "raise" THEN Exit(r)
    ELSE IF ~Truthy(r.v)
         THEN Exit(Return(FlowResult("form", "invalid_username_or_password")))
         ELSE Exit(Return(IF handler = "async_step_user"
                          THEN FlowResult("create_entry", "")
                          ELSE FlowResult("abort", "reconfigure_successful")))

ControllerHandlers ==
    {"get_locations_and_meters", "get_dictation_and_reading_times",
     "async_update", "async_get_events"}

FlowHandlers == {"async_step_user", "async_step_init"}

KindOf(handler) ==
    IF handler = "get_locations_and_meters" THEN "locations" ELSE "readings"

\* What the code awaiting the session call does next.
next_of(handler, stage, r) ==
    IF handler \in FlowHandlers THEN flow_next(handler, r)
    ELSE controller_next(KindOf(handler), stage, r)

\* ------------------------------------------------------- the calendar entity
\* throttle_allows, were the update not throttled.
throttle_allows_always(ent, t) ==
    ent.throttle = None \/ t >= ent.throttle.n

\* Throttle(MIN_TIME_BETWEEN_UPDATES): the wrapped method runs when it never
\* ran or more than the minimum time has passed since it last did.
throttle_allows(ent, t) ==
    ent.throttle = None \/ t - ent.throttle.n > MIN_TIME_BETWEEN_UPDATES

Done(ent, oc) == [entity |-> ent, outcome |-> oc]

\* async_update after the awaited update.
async_update_tail(ent) ==
    IF ent.times.t # "list" THEN Done(ent, Raise("TypeError"))
    ELSE IF Len(ent.times.l) = 0 THEN Done([ent EXCEPT !.event = None], Return(None))
    ELSE Done([ent EXCEPT !.event = get_event(ent.times.l[1])], Return(None))

\* async_get_events after the awaited update.
async_get_events_tail(ent, args) ==
    IF ent.times.t # "list" THEN Done(ent, Raise("TypeError"))
    ELSE Done(ent, Return(PyList(events_between(
                 ent.times.l,
                 to_local_naive(args.start_date, args.local_zone),
                 to_local_naive(args.end_date, args.local_zone)))))

\* entity_return, were the stored reading times reset when the update fails.
entity_return_clearing(handler, args, ent, oc) ==
    IF oc.k = "raise" THEN Done([ent EXCEPT !.times = PyList(<<>>)], oc)
    ELSE LET updated == [ent EXCEPT !.times = oc.v]
         IN  IF handler = "async_update" THEN async_update_tail(updated)
             ELSE async_get_events_tail(updated, args)

\* _update_dictation_and_reading_times, once the controller call ended with
\* oc, and the rest of the entity's handler.
entity_return(handler, args, ent, oc) ==
    IF oc.k = "raise" THEN Done(ent, oc)
    ELSE LET updated == [ent EXCEPT !.times = oc.v]
         IN  IF handler = "async_update" THEN async_update_tail(updated)
             ELSE async_get_events_tail(updated, args)

\* done, with Home Assistant's data h.
With(done, h) == [entity |-> done.entity, outcome |-> done.outcome, hass |-> h]

\* async_update_entry(config_entry, data=config_entry.data | user_input), and
\* the entry async_create_entry's result makes the flow manager add.
store_entry(h, user_input) ==
    [h EXCEPT !.entries = (user_input.username :> user_input.password) @@ @]

\* store_entry, were the entry written whatever post_login returned.
flow_return_unchecked(handler, user_input, ent, h, oc) ==
    With(Done(ent, oc), store_entry(h, user_input))

\* The flow step after its "async with" block, left with oc: a raise or the
\* form returned inside the block ends the step; otherwise async_step_user
\* sets the unique id, aborts if it is configured and creates the entry, and
\* async_step_init updates the entry and aborts with reconfigure_successful.
flow_return(handler, user_input, ent, h, oc) ==
    IF oc.k = "raise" \/ oc.v.type = "form" THEN With(Done(ent, oc), h)
    ELSE IF handler = "async_step_user" /\ user_input.username \in DOMAIN h.entries
    THEN With(Done(ent, Return(FlowResult("abort", "already_configured"))), h)
    ELSE With(Done(ent, oc), store_entry(h, user_input))

\* What the handler of a frame makes of the outcome oc of its "async with"
\* block.
handler_return(frame, ent, h, oc) ==
    IF frame.handler \in {"async_update", "async_get_events"}
    THEN With(entity_return(frame.handler, frame.args, ent, oc), h)
    ELSE IF frame.handler \in FlowHandlers
    THEN flow_return(frame.handler, frame.args, ent, h, oc)
    ELSE With(Done(ent, oc), h)


\* ----------------------------------------------------------------- actions
Slots == DOMAIN ops

IdleFrame ==
    [handler |-> "none", pc |-> "idle", session |-> 0, token |-> None,
     args |-> None, at |-> 0, login |-> None, result |-> None, outcome |-> None]

Free(o) == ops[o].pc \in {"idle", "done"}

\* The sessions still referenced once slot o's finished frame is dropped.
Dropped(o) == [i \in DOMAIN sessions \ {ops[o].session} |-> sessions[i]]

\* FreshId, were one session object kept for all operations.
FreshId_shared(ss) == 1

\* The identity of a new session object: one no live session has.
FreshId(ss) == CHOOSE i \in 1..(Cardinality(DOMAIN ss) + 1) : i \notin DOMAIN ss

\* "async with FvmCustomerServiceSession() as session:" entered by handler
\* in slot o, the first session call being pc.
Enter(o, handler, args, pc) ==
    /\ sessions' = aenter(Dropped(o), FreshId(Dropped(o)))
    /\ ops' = [ops EXCEPT ![o] =
                 [IdleFrame EXCEPT !.handler = handler, !.pc = pc, !.args = args,
                                   !.session = FreshId(Dropped(o)), !.at = now]]

\* A handler that ends without opening a session.
Immediate(o, handler, args, done) ==
    /\ sessions' = Dropped(o)
    /\ entity' = done.entity
    /\ ops' = [ops EXCEPT ![o] =
                 [IdleFrame EXCEPT !.handler = handler, !.pc = "done", !.args = args,
                                   !.at = now, !.outcome = done.outcome]]

\* The frame ended: its block with oc, its handler with done.
Ended(frame, oc, done) ==
    [frame EXCEPT !.pc = "done", !.token = None, !.result = oc,
                  !.outcome = done.outcome]

\* The "async with" block of frame (slot o) is left with oc: __aexit__, then
\* the rest of the handler, which ends with done.
LeaveWith(o, ss, frame, oc, done) ==
    /\ sessions' = aexit(ss, frame.session, oc)
    /\ entity' = done.entity
    /\ hass' = done.hass
    /\ ops' = [ops EXCEPT ![o] = Ended(frame, oc, done)]

Leave(o, ss, frame, oc) ==
    LeaveWith(o, ss, frame, oc, handler_return(frame, entity, hass, oc))

\* The frame goes on as n says.
Go(o, ss, frame, n) ==
    IF n.pc = "exit" THEN Leave(o, ss, frame, n.oc)
    ELSE /\ sessions' = ss
         /\ ops' = [ops EXCEPT ![o] = [frame EXCEPT !.pc = n.pc, !.token = None]]
         /\ UNCHANGED <<entity, hass>>

\* Slot o goes on after the session call `stage` ended with r on sessions ss.
Continue(o, ss, stage, r) ==
    Go(o, ss,
       [ops[o] EXCEPT !.login = IF stage = "post_login" THEN r ELSE @],
       next_of(ops[o].handler, stage, r))

\* Within, were the token of the session's login kept for its later POSTs.
Within_cached(o, ss, stage, r, pc) ==
    IF r.k = "raise" THEN Continue(o, ss, stage, r)
    ELSE /\ sessions' = ss
         /\ ops' = [ops EXCEPT ![o].pc = pc,
                               ![o].token = IF stage = "fetch"
                                            THEN ss[ops[o].session].log[3].req.token
                                            ELSE r.v]
         /\ UNCHANGED <<entity, hass>>

\* A session call of slot o ends with r between its two requests: it raised
\* (and so does the caller), or it holds the token r.v and goes on to pc.
Within(o, ss, stage, r, pc) ==
    IF r.k = "raise" THEN Continue(o, ss, stage, r)
    ELSE /\ sessions' = ss
         /\ ops' = [ops EXCEPT ![o].pc = pc, ![o].token = r.v]
         /\ UNCHANGED <<entity, hass>>

\* FvmController(username, password): the controller keeps the credentials.
FvmController(username, password) == [username |-> username, password |-> password]

\* The credentials of the entity's FvmController.
ControllerCredentials == FvmController("u", "p")

Usernames == {"u", "v"}
Passwords == {"p", "q"}

\* is_controller_exists, were no controller ever found.
is_controller_exists_never(h, user_name) == FALSE

\* user_name in hass.data[DOMAIN][DATA_CONTROLLER]
is_controller_exists(h, user_name) == user_name \in DOMAIN h.controllers

\* hass.data[DOMAIN][DATA_CONTROLLER][user_name] = controller
set_controller(h, user_name, controller) ==
    [h EXCEPT !.controllers = (user_name :> controller) @@ @]

\* Home Assistant's data after async_setup, no entry configured.
async_setup == [entries |-> <<>>, controllers |-> <<>>]

\* async_setup_entry of the integration, for the entry of username: the
\* controller is registered unless one is registered under the username.
async_setup_entry(h, username, password) ==
    IF ~is_controller_exists(h, username)
    THEN set_controller(h, username, FvmController(username, password))
    ELSE h

\* The same with the entry of the entity's account set up.
Configured ==
    [entries |-> (ControllerCredentials.username :> ControllerCredentials.password),
     controllers |-> (ControllerCredentials.username :> ControllerCredentials)]

\* The credentials post_login is called with in a frame: the flow's input,
\* the called controller's, the entity's controller's.
CredentialsOf(frame) ==
    IF frame.handler \in {"async_update", "async_get_events"}
    THEN ControllerCredentials ELSE frame.args

\* FvmController.get_locations_and_meters called.
GetLocationsAndMeters(o) ==
    /\ Free(o)
    /\ \E u \in DOMAIN hass.controllers :
         Enter(o, "get_locations_and_meters", hass.controllers[u], "get_root_page")
    /\ UNCHANGED <<now, entity, fnIn, fnOut, hass>>

\* FvmController.get_dictation_and_reading_times called.
GetDictationAndReadingTimes(o) ==
    /\ Free(o)
    /\ \E u \in DOMAIN hass.controllers :
         Enter(o, "get_dictation_and_reading_times", hass.controllers[u],
               "get_root_page")
    /\ UNCHANGED <<now, entity, fnIn, fnOut, hass>>

\* async_update called: up to the first network call of the update, or to
\* its end when the update is throttled.
AsyncUpdate(o) ==
    /\ Free(o)
    /\ IF throttle_allows(entity, now)
       THEN /\ Enter(o, "async_update", None, "get_root_page")
            /\ entity' = [entity EXCEPT !.throttle = PyNum(now), !.calls = Append(@, now)]
       ELSE Immediate(o, "async_update", None, async_update_tail(entity))
    /\ UNCHANGED <<now, fnIn, fnOut, hass>>

\* <<start, end>> instants async_get_events is called with: from 2024-01-05
\* 00:00 UTC, from one tick later, and a range that ends before it starts.
QueryRanges ==
    { <<NowStart - 5 * TicksPerDay, NowStart>>,
      <<NowStart - 5 * TicksPerDay + 1, NowStart>>,
      <<NowStart, NowStart - 5 * TicksPerDay>> }

\* The local zone's offset from UTC, in ticks.
LocalZones == {0, 1}

EventsArgs(r, z) ==
    [start_date |-> [utc |-> r[1], off |-> 0],
     end_date |-> [utc |-> r[2], off |-> 0], local_zone |-> z]

\* async_get_events called, likewise.
AsyncGetEvents(o) ==
    /\ Free(o)
    /\ \E r \in QueryRanges, z \in LocalZones :
         IF throttle_allows(entity, now)
         THEN /\ Enter(o, "async_get_events", EventsArgs(r, z), "get_root_page")
              /\ entity' = [entity EXCEPT !.throttle = PyNum(now), !.calls = Append(@, now)]
         ELSE Immediate(o, "async_get_events", EventsArgs(r, z),
                        async_get_events_tail(entity, EventsArgs(r, z)))
    /\ UNCHANGED <<now, fnIn, fnOut, hass>>

\* FvmConfigFlow.async_step_user called with the user's input.
AsyncStepUser(o) ==
    /\ Free(o)
    /\ \E u \in Usernames, p \in Passwords :
         Enter(o, "async_step_user", [username |-> u, password |-> p], "post_login_get")
    /\ UNCHANGED <<now, entity, fnIn, fnOut, hass>>

\* FvmOptionsFlowHandler.async_step_init called with the user's input.
AsyncStepInit(o) ==
    /\ Free(o)
    /\ \E u \in DOMAIN hass.entries, p \in Passwords :
         Enter(o, "async_step_init", [username |-> u, password |-> p],
               "post_login_get")
    /\ UNCHANGED <<now, entity, fnIn, fnOut, hass>>

\* A config entry is set up (after its creation, at a reload): async_setup_entry
\* of the integration, then that of the calendar platform up to the first
\* network call of get_controller(hass, username).get_locations_and_meters().
AsyncSetupEntry(o) ==
    /\ Free(o)
    /\ \E u \in DOMAIN hass.entries :
         /\ hass' = async_setup_entry(hass, u, hass.entries[u])
         /\ Enter(o, "get_locations_and_meters",
                  async_setup_entry(hass, u, hass.entries[u]).controllers[u],
                  "get_root_page")
    /\ UNCHANGED <<now, entity, fnIn, fnOut>>

\* await session.get_root_page()
GetRootPage(o) ==
    /\ ops[o].pc = "get_root_page"
    /\ \E resp \in RootResponses :
         Continue(o, send(sessions, ops[o].session, [url |-> "root"], resp,
                          get_root_page(resp)),
                  "get_root_page", get_root_page(resp))
    /\ UNCHANGED <<now, fnIn, fnOut>>

\* post_login: the GET of the login page.
PostLoginGet(o) ==
    /\ ops[o].pc = "post_login_get"
    /\ \E resp \in LoginPages :
         Within(o, send(sessions, ops[o].session, [url |-> "login_get"], resp,
                        post_login_token(resp)),
                "post_login", post_login_token(resp), "post_login_post")
    /\ UNCHANGED <<now, fnIn, fnOut>>

\* post_login: the POST of the form, and what the caller does with the result.
PostLoginPost(o) ==
    /\ ops[o].pc = "post_login_post"
    /\ \E resp \in LoginResponses :
         Continue(o, send(sessions, ops[o].session,
                          [url |-> "login_post", token |-> ops[o].token,
                           credentials |-> CredentialsOf(ops[o])],
                          resp, post_login_posted(resp)),
                  "post_login", post_login_posted(resp))
    /\ UNCHANGED <<now, fnIn, fnOut>>

\* await session.get_locations_and_serial_numbers(), and the return.
LocationsGet(o) ==
    /\ ops[o].pc = "locations_get"
    /\ \E resp \in LocationsResponses :
         Continue(o, send(sessions, ops[o].session, [url |-> "locations_get"], resp,
                          get_locations_and_serial_numbers(resp)),
                  "fetch", get_locations_and_serial_numbers(resp))
    /\ UNCHANGED <<now, fnIn, fnOut>>

\* Session get_dictation_and_reading_times: the GET of the priming page.
PrimingGet(o) ==
    /\ ops[o].pc = "priming_get"
    /\ \E resp \in PrimingPages :
         Within(o, send(sessions, ops[o].session, [url |-> "priming_get"], resp,
                        reading_times_token(resp)),
                "fetch", reading_times_token(resp), "data_post")
    /\ UNCHANGED <<now, fnIn, fnOut>>

\* Session get_dictation_and_reading_times: the POST, and the return.
DataPost(o) ==
    /\ ops[o].pc = "data_post"
    /\ \E resp \in ReadingsResponses :
         Continue(o, send(sessions, ops[o].session,
                          [url |-> "data_post", token |-> ops[o].token],
                          resp, reading_times_posted(resp)),
                  "fetch", reading_times_posted(resp))
    /\ UNCHANGED <<now, fnIn, fnOut>>

\* Time passes: the minimum time between updates, or one tick more.
Tick ==
    /\ \E d \in {MIN_TIME_BETWEEN_UPDATES, MIN_TIME_BETWEEN_UPDATES + 1} :
         /\ now + d <= NowStart + MaxDays * TicksPerDay
         /\ now' = now + d
    /\ UNCHANGED <<sessions, ops, entity, fnIn, fnOut, hass>>

MachineInit ==
    /\ now = NowStart
    /\ hass = Configured
    /\ sessions = [i \in {} |-> NewSession]
    /\ entity = [times |-> PyList(<<>>), event |-> None, throttle |-> None,
                 calls |-> <<>>]

Init ==
    /\ MachineInit
    /\ ops = [o \in MainSlots |-> IdleFrame]
    /\ fnIn = None
    /\ fnOut = None

Next ==
    \/ \E o \in Slots : GetLocationsAndMeters(o)
    \/ \E o \in Slots : GetDictationAndReadingTimes(o)
    \/ \E o \in Slots : AsyncUpdate(o)
    \/ \E o \in Slots : AsyncGetEvents(o)
    \/ \E o \in Slots : AsyncStepUser(o)
    \/ \E o \in Slots : AsyncStepInit(o)
    \/ \E o \in Slots : GetRootPage(o)
    \/ \E o \in Slots : PostLoginGet(o)
    \/ \E o \in Slots : PostLoginPost(o)
    \/ \E o \in Slots : LocationsGet(o)
    \/ \E o \in Slots : PrimingGet(o)
    \/ \E o \in Slots : DataPost(o)
    \/ Tick

Spec == Init /\ [][Next]_vars

\* ----------------------------------------------- operations running together
\* Coroutine slots of the specification SpecPar: two controller operations,
\* each started once, their steps interleaved at every network call.
ParSlots == {1, 2}

ParInit ==
    /\ MachineInit
    /\ ops = [o \in ParSlots |-> IdleFrame]
    /\ fnIn = None
    /\ fnOut = None

ParNext ==
    \/ \E o \in Slots : ops[o].pc = "idle" /\ GetLocationsAndMeters(o)
    \/ \E o \in Slots : ops[o].pc = "idle" /\ GetDictationAndReadingTimes(o)
    \/ \E o \in Slots : GetRootPage(o)
    \/ \E o \in Slots : PostLoginGet(o)
    \/ \E o \in Slots : PostLoginPost(o)
    \/ \E o \in Slots : LocationsGet(o)
    \/ \E o \in Slots : PrimingGet(o)
    \/ \E o \in Slots : DataPost(o)

SpecPar == ParInit /\ [][ParNext]_vars

\* ------------------------------------------------ entries and their controllers
\* The specification SpecReg: from Home Assistant's data after async_setup,
\* config flows, options flows and set-ups of the configured entries.
RegInit ==
    /\ now = NowStart
    /\ hass = async_setup
    /\ sessions = [i \in {} |-> NewSession]
    /\ entity = [times |-> PyList(<<>>), event |-> None, throttle |-> None,
                 calls |-> <<>>]
    /\ ops = [o \in MainSlots |-> IdleFrame]
    /\ fnIn = None
    /\ fnOut = None

RegNext ==
    \/ \E o \in Slots : AsyncStepUser(o)
    \/ \E o \in Slots : AsyncStepInit(o)
    \/ \E o \in Slots : AsyncSetupEntry(o)
    \/ \E o \in Slots : GetRootPage(o)
    \/ \E o \in Slots : PostLoginGet(o)
    \/ \E o \in Slots : PostLoginPost(o)
    \/ \E o \in Slots : LocationsGet(o)

SpecReg == RegInit /\ [][RegNext]_vars

\* ------------------------------------------- the functions on drawn arguments
\* Lists over a set, up to a length.
RECURSIVE ListsUpTo(_, _)
ListsUpTo(S, n) ==
    IF n = 0 THEN {<<>>}
    ELSE ListsUpTo(S, n - 1)
         \cup {Append(l, x) : l \in {m \in ListsUpTo(S, n - 1) : Len(m) = n - 1}, x \in S}

Jan20to25 == Reading(Ymd(2024, 1, 20), Ymd(2024, 1, 25), "D")

\* Raw records with valid dates, two of them starting the same day.
SortPool == {Jan1to5, Jan1to9, Feb1to5, Jan20to25}

\* Raw records by the text of their LEOIDOSZAK: <from>-<to><tail>.
FromTexts ==
    { Ymd(2024, 1, 15),
      Ymd(2024, 13, 1),
      <<"2", "0", "2", "4", ".", "0", "1", ".", " ", "5">>,
      <<"2", "0", "2", "4", "/", "0", "1", "/", "1", "5">> }

ToTexts ==
    { Ymd(2024, 2, 15),
      Ymd(2024, 2, 30),
      Ymd(2023, 12, 31),
      <<"2", "0", "2", "4", ".", "2", ".", "1", "5">> }

Tails == { <<>>, <<" ">> }

ParsePool ==
    {PyObj([LEOIDOSZAK |-> PyStr(f \o <<"-">> \o t \o x), LEOMOD |-> PyStr(<<"D">>)]) :
        f \in FromTexts, t \in ToTexts, x \in Tails}

Day(y, m, d) == ToOrdinal(y, m, d) * TicksPerDay

\* Stored reading times for the range queries: several days, a single day.
WindowPool ==
    { ReadingTime(Day(2024, 1, 1), Day(2024, 1, 5), PyStr(<<"D">>)),
      ReadingTime(Day(2024, 1, 5), Day(2024, 1, 5), PyStr(<<"L">>)),
      ReadingTime(Day(2024, 1, 7), Day(2024, 1, 9), PyStr(<<"D">>)) }

RangeInstants ==
    {Day(2024, 1, d) + k : d \in {3, 5, 6, 10}, k \in {0, 1}}

FnInputs ==
    {[f |-> "post_login", resp |-> r] : r \in LoginResponses}
    \cup {[f |-> "reading_times", records |-> l] : l \in ListsUpTo(SortPool, MaxLen)}
    \cup {[f |-> "reading_times", records |-> l] : l \in ListsUpTo(ParsePool, MaxParseLen)}
    \cup {[f |-> "get_events", times |-> l, args |-> EventsArgs(r, z)] :
            l \in ListsUpTo(WindowPool, MaxLen - 1),
            r \in {p \in RangeInstants \X RangeInstants : p[1] <= p[2]},
            z \in LocalZones}

FnInit ==
    /\ MachineInit
    /\ ops = [o \in MainSlots |-> IdleFrame]
    /\ fnIn \in FnInputs
    /\ fnOut = None

\* post_login on a login answer.
ApplyPostLogin ==
    /\ fnIn.f = "post_login" /\ fnOut = None
    /\ fnOut' = post_login_posted(fnIn.resp)
    /\ UNCHANGED <<now, sessions, ops, entity, fnIn, hass>>

\* The return statement of get_dictation_and_reading_times on the records.
ApplyReadingTimes ==
    /\ fnIn.f = "reading_times" /\ fnOut = None
    /\ fnOut' = reading_times_result(ReadingsJson(fnIn.records).json)
    /\ UNCHANGED <<now, sessions, ops, entity, fnIn, hass>>

\* async_get_events on stored reading times (the update being throttled).
ApplyGetEvents ==
    /\ fnIn.f = "get_events" /\ fnOut = None
    /\ fnOut' = async_get_events_tail([entity EXCEPT !.times = PyList(fnIn.times)],
                                      fnIn.args).outcome
    /\ UNCHANGED <<now, sessions, ops, entity, fnIn, hass>>

FnNext == ApplyPostLogin \/ ApplyReadingTimes \/ ApplyGetEvents

SpecFn == FnInit /\ [][FnNext]_vars

\* ------------------------------------------------------------------ claims
Returned(x) == x # None /\ x.k = "return"
Raised(x) == x # None /\ x.k = "raise"

\* The slots whose frame runs (or ran) a controller operation on a session.
ControllerFrames ==
    {o \in Slots : ops[o].handler \in ControllerHandlers /\ ops[o].session # 0}

\* The slots whose frame is a direct call of a controller operation.
DirectFrames ==
    {o \in Slots : ops[o].handler \in
                     {"get_locations_and_meters", "get_dictation_and_reading_times"}}

LogOf(o) == sessions[ops[o].session].log

Urls(log) == [i \in 1..Len(log) |-> log[i].req.url]

IsPrefix(a, b) == Len(a) <= Len(b) /\ \A i \in 1..Len(a) : a[i] = b[i]

\* C1: in every run of a controller operation the connection opened on
\* session entry stays open while the operation runs and, once the operation
\* has returned or raised, is closed, by exactly one exit.
C1_ConnectionReleasedOnce ==
    \A o \in ControllerFrames :
        IF ops[o].pc = "done"
        THEN ~sessions[ops[o].session].open /\ sessions[ops[o].session].exits = 1
        ELSE sessions[ops[o].session].open /\ sessions[ops[o].session].exits = 0

\* C1 witness: the reading-times operation raised on its data fetch and its
\* connection is closed, once.
C1_Witness ==
    \E o \in ControllerFrames :
        /\ ops[o].handler = "get_dictation_and_reading_times"
        /\ ops[o].pc = "done" /\ Raised(ops[o].outcome)
        /\ Len(LogOf(o)) = 5 /\ LogOf(o)[5].req.url = "data_post"
        /\ ~sessions[ops[o].session].open /\ sessions[ops[o].session].exits = 1

\* C2 (as claimed): when post_login returned false, the controller operation
\* ends by raising AuthenticationError.
C2_LoginFalseRaisesAuthenticationError ==
    \A o \in DirectFrames :
        (ops[o].pc = "done" /\ ops[o].login = Return(PyBool(FALSE)))
            => ops[o].outcome = Raise("AuthenticationError")

\* The login answer says Success == true and Object.Success == true.
BothTrue(resp) ==
    /\ resp.body = "json" /\ resp.json.t = "obj"
    /\ "Success" \in DOMAIN resp.json.f /\ resp.json.f.Success = PyBool(TRUE)
    /\ "Object" \in DOMAIN resp.json.f /\ resp.json.f.Object.t = "obj"
    /\ "Success" \in DOMAIN resp.json.f.Object.f
    /\ resp.json.f.Object.f.Success = PyBool(TRUE)

\* The login answer has a Success and an Object.Success that Python takes as
\* true (for JSON booleans: that are true).
BothTruthy(resp) ==
    /\ resp.body = "json" /\ resp.json.t = "obj"
    /\ "Success" \in DOMAIN resp.json.f /\ Truthy(resp.json.f.Success)
    /\ "Object" \in DOMAIN resp.json.f /\ resp.json.f.Object.t = "obj"
    /\ "Success" \in DOMAIN resp.json.f.Object.f
    /\ Truthy(resp.json.f.Object.f.Success)

\* The login answer's Success, where there is one, is a JSON boolean.
SuccessIsBoolean(resp) ==
    (resp.body = "json" /\ resp.json.t = "obj" /\ "Success" \in DOMAIN resp.json.f)
        => resp.json.f.Success.t = "bool"

CharsOf(s, lo, hi) ==
    [i \in 1..((IF hi <= Len(s) THEN hi ELSE Len(s)) - lo) |-> s[lo + i]]

\* A text is a date written YYYY.MM.DD.
IsYmdText(s) ==
    /\ Len(s) = 10
    /\ \A i \in {1, 2, 3, 4, 6, 7, 9, 10} : IsDigit(s[i])
    /\ s[5] = "." /\ s[8] = "."
    /\ (DigitVal(s[1]) + DigitVal(s[2]) + DigitVal(s[3]) + DigitVal(s[4])) > 0
    /\ (10 * DigitVal(s[6]) + DigitVal(s[7])) \in 1..12
    /\ (10 * DigitVal(s[9]) + DigitVal(s[10])) \in
         1..DaysInMonth(1000 * DigitVal(s[1]) + 100 * DigitVal(s[2])
                          + 10 * DigitVal(s[3]) + DigitVal(s[4]),
                        10 * DigitVal(s[6]) + DigitVal(s[7]))

\* Midnight of the date a YYYY.MM.DD text writes.
YmdDate(s) ==
    TicksPerDay * ToOrdinal(1000 * DigitVal(s[1]) + 100 * DigitVal(s[2])
                              + 10 * DigitVal(s[3]) + DigitVal(s[4]),
                            10 * DigitVal(s[6]) + DigitVal(s[7]),
                            10 * DigitVal(s[9]) + DigitVal(s[10]))

PeriodOf(record) == record.f.LEOIDOSZAK.s

\* A raw record with a YYYY.MM.DD date at [0,10) and at [11,22).
HasBothDates(record) ==
    /\ IsYmdText(CharsOf(PeriodOf(record), 0, 10))
    /\ IsYmdText(CharsOf(PeriodOf(record), 11, 22))

\* The window such a record stands for.
WindowOf(record) ==
    [start |-> YmdDate(CharsOf(PeriodOf(record), 0, 10)),
     end |-> YmdDate(CharsOf(PeriodOf(record), 11, 22)),
     mode |-> record.f.LEOMOD]

Count(seq, x) == Cardinality({i \in 1..Len(seq) : seq[i] = x})

\* The elements of seq that start at s, in order.
StartingAt(seq, s) ==
    LET Here(w) == w.start = s IN SelectSeq(seq, Here)

\* b is a stable ascending sort of a by start.
StableSortOf(b, a) ==
    /\ Len(b) = Len(a)
    /\ \A i \in 1..Len(a) : Count(b, a[i]) = Count(a, a[i])
    /\ \A i, j \in 1..Len(b) : i < j => b[i].start <= b[j].start
    /\ \A i \in 1..Len(a) : StartingAt(b, a[i].start) = StartingAt(a, a[i].start)

\* C4: the list get_dictation_and_reading_times returns is a permutation of
\* the parsed records, non-decreasing by start, records of equal start in
\* their original order.
C4_SortedStable ==
    (fnIn # None /\ fnIn.f = "reading_times" /\ fnOut # None
       /\ \A i \in 1..Len(fnIn.records) : HasBothDates(fnIn.records[i])) =>
        /\ Returned(fnOut) /\ fnOut.v.t = "list"
        /\ StableSortOf(fnOut.v.l,
                        [i \in 1..Len(fnIn.records) |-> WindowOf(fnIn.records[i])])

\* C4 witness: a later window first, then two windows starting the same day;
\* the result has those two first, in their order.
C4_Witness ==
    /\ fnIn = [f |-> "reading_times", records |-> <<Feb1to5, Jan1to9, Jan1to5>>]
    /\ fnOut = Return(PyList(<<WindowOf(Jan1to9), WindowOf(Jan1to5), WindowOf(Feb1to5)>>))

\* The windows of a list that do not end before t.
Upcoming(times, t) == {i \in 1..Len(times) : times[i].end >= t}

\* The event of the earliest-start window not ending before t; None if none.
NextUpcoming(times, t) ==
    IF Upcoming(times, t) = {} THEN None
    ELSE get_event(times[CHOOSE i \in Upcoming(times, t) :
                           \A j \in Upcoming(times, t) :
                               \/ times[i].start < times[j].start
                               \/ (times[i].start = times[j].start /\ i <= j)])

\* C5 (as claimed): after async_update, called at time t, has returned, the
\* entity's event is the earliest-start window whose end is not before t,
\* none when there is no such window.
C5_EventIsNextUpcoming ==
    \A o \in Slots :
        (ops[o].handler = "async_update" /\ ops[o].pc = "done"
           /\ Returned(ops[o].outcome))
            => entity.event = NextUpcoming(entity.times.l, ops[o].at)

\* The local calendar day of a query bound.
LocalDay(aware, zone) == (aware.utc + zone) \div TicksPerDay

\* The windows whose days [start, end] meet the days [from, to].
RECURSIVE MeetingDays(_, _, _)
MeetingDays(times, from, to) ==
    IF times = <<>> THEN <<>>
    ELSE IF /\ DateOf(Head(times).start) <= DateOf(Head(times).end)
            /\ from <= to
            /\ DateOf(Head(times).start) <= to
            /\ from <= DateOf(Head(times).end)
         THEN <<get_event(Head(times))>> \o MeetingDays(Tail(times), from, to)
         ELSE MeetingDays(Tail(times), from, to)

\* C6 (as claimed): async_get_events returns, in input order, the windows
\* whose days [start, end] meet the range's local days, boundary days
\* included.
C6_EventsMeetingRangeDays ==
    (fnIn # None /\ fnIn.f = "get_events" /\ fnOut # None) =>
        fnOut = Return(PyList(MeetingDays(
                    fnIn.times,
                    LocalDay(fnIn.args.start_date, fnIn.args.local_zone),
                    LocalDay(fnIn.args.end_date, fnIn.args.local_zone))))

\* The requests of a controller operation, in order.
Handshake(handler) ==
    IF handler = "get_locations_and_meters"
    THEN <<"root", "login_get", "login_post", "locations_get">>
    ELSE <<"root", "login_get", "login_post", "priming_get", "data_post">>

\* C7: the requests of a controller operation go out in the order root page,
\* login, data fetch; a data endpoint is requested only after post_login
\* returned true (a value the operation's "if" takes as true) on the same
\* session; when post_login returned false, none is.
C7_RequestOrder ==
    \A o \in ControllerFrames :
        /\ IsPrefix(Urls(LogOf(o)), Handshake(ops[o].handler))
        /\ Len(LogOf(o)) > 3
             => /\ ~LogOf(o)[3].raised
                /\ Returned(ops[o].login) /\ Truthy(ops[o].login.v)
        /\ (Returned(ops[o].login) /\ ~Truthy(ops[o].login.v))
             => (Len(LogOf(o)) = 3 /\ ops[o].pc = "done")

\* C7 witness: the reading-times operation has sent its data POST.
C7_Witness ==
    \E o \in ControllerFrames :
        /\ ops[o].handler = "get_dictation_and_reading_times"
        /\ Urls(LogOf(o)) = Handshake(ops[o].handler)
        /\ ops[o].login = Return(PyBool(TRUE))

\* C8 (as claimed): on every session, the login page is requested only
\* after get_root_page has completed on it.
C8_RootPageBeforeLogin ==
    \A sid \in DOMAIN sessions :
        \A i \in 1..Len(sessions[sid].log) :
            sessions[sid].log[i].req.url = "login_get"
                => \E j \in 1..(i - 1) :
                       /\ sessions[sid].log[j].req.url = "root"
                       /\ ~sessions[sid].log[j].raised

\* The records of the data answer a log ends with.
FetchedRecords(handler, log) ==
    IF handler = "get_locations_and_meters"
    THEN log[Len(log)].resp.json.f.FogyHely.f.T_FOGYH.l
    ELSE log[Len(log)].resp.json.f.DataModel.f.LeolvDiktIdoszakok.l

\* C9: a failure at any step of a controller operation ends it: the failed
\* request is the last one sent, no request is sent twice, the operation
\* raises, and a list is returned only when nothing failed, with one element
\* for every record fetched.
C9_FailureAborts ==
    \A o \in ControllerFrames :
        /\ \A i \in 1..(Len(LogOf(o)) - 1) : ~LogOf(o)[i].raised
        /\ \A i, j \in 1..Len(LogOf(o)) :
               i # j => LogOf(o)[i].req.url # LogOf(o)[j].req.url
        /\ (Len(LogOf(o)) > 0 /\ LogOf(o)[Len(LogOf(o))].raised)
             => (ops[o].pc = "done" /\ Raised(ops[o].result))
        /\ o \in DirectFrames => ops[o].outcome = ops[o].result
        /\ (Returned(ops[o].result) /\ ops[o].result.v.t = "list")
             => /\ \A i \in 1..Len(LogOf(o)) : ~LogOf(o)[i].raised
                /\ Urls(LogOf(o)) = Handshake(ops[o].handler)
                /\ Len(ops[o].result.v.l)
                     = Len(FetchedRecords(ops[o].handler, LogOf(o)))

\* C9 witness: the data answer held a record with an impossible date; the
\* operation raised ValueError after its five requests.
C9_Witness ==
    \E o \in DirectFrames :
        /\ ops[o].pc = "done" /\ ops[o].outcome = Raise("ValueError")
        /\ Len(LogOf(o)) = 5
        /\ LogOf(o)[5].resp = ReadingsJson(<<Jan1to5, Feb30>>)

SessionFrames == {o \in Slots : ops[o].session # 0}

\* The body holds a __RequestVerificationToken input.
HasInput(text) ==
    \E l \in 1..Len(text) : \E a \in 1..Len(text[l]) : text[l][a].i = "input"

\* The first line of a body that holds such an input.
FirstInputLine(text) ==
    CHOOSE l \in 1..Len(text) :
        /\ \E a \in 1..Len(text[l]) : text[l][a].i = "input"
        /\ \A k \in 1..(l - 1) : \A a \in 1..Len(text[k]) : text[k][a].i # "input"

\* The value attribute of the first such input of a body, as a str.
FirstTokenValue(text) ==
    PyStr(<<text[FirstInputLine(text)][FirstInput(text[FirstInputLine(text)])]>>)

\* C11 (as claimed): the token a session call holds after its GET is the
\* value attribute of the first __RequestVerificationToken input of the body
\* it was answered with.
C11_TokenIsFirstValue ==
    \A o \in SessionFrames :
        ops[o].pc \in {"post_login_post", "data_post"}
            => ops[o].token = FirstTokenValue(LogOf(o)[Len(LogOf(o))].resp.text)

\* C12: when the login page or the priming page holds no
\* __RequestVerificationToken input, the session call fails with the parse
\* error (AttributeError) and the POST that would follow is not sent: the GET
\* is the last request on the session.
C12_NoTokenNoPost ==
    \A o \in SessionFrames :
        \A i \in 1..Len(LogOf(o)) :
            (/\ LogOf(o)[i].req.url \in {"login_get", "priming_get"}
             /\ LogOf(o)[i].resp.body = "html"
             /\ ~HasInput(LogOf(o)[i].resp.text))
                => /\ LogOf(o)[i].raised
                   /\ i = Len(LogOf(o))
                   /\ ops[o].pc = "done"
                   /\ ops[o].result = Raise("AttributeError")

\* C12 witness: the priming page of a reading-times operation held no token
\* input; the operation raised after four requests.
C12_Witness ==
    \E o \in SessionFrames :
        /\ Urls(LogOf(o)) = <<"root", "login_get", "login_post", "priming_get">>
        /\ LogOf(o)[4].resp = Html(PageNone)
        /\ ops[o].pc = "done" /\ ops[o].result = Raise("AttributeError")

\* C13 (as claimed): on a login answer that is not JSON, or is JSON of another
\* shape than {Success: bool, Object: {Success: bool}}, post_login raises.
C13_MalformedLoginRaises ==
    (fnIn # None /\ fnIn.f = "post_login" /\ fnOut # None
       /\ fnIn.resp \in MalformedLogins) => Raised(fnOut)

\* C14 (as claimed): every window get_dictation_and_reading_times returns has
\* start <= end.
C14_StartNotAfterEnd ==
    (fnIn # None /\ fnIn.f = "reading_times" /\ Returned(fnOut)
       /\ fnOut.v.t = "list") =>
        \A i \in 1..Len(fnOut.v.l) : fnOut.v.l[i].start <= fnOut.v.l[i].end

\* A locations answer {FogyHely: {T_FOGYH: [records]}} whose records all hold
\* FOGYH_MN, ANLAGE and SERGE.
IsLocationsAnswer(resp) ==
    /\ resp.body = "json" /\ resp.json.t = "obj"
    /\ "FogyHely" \in DOMAIN resp.json.f /\ resp.json.f.FogyHely.t = "obj"
    /\ "T_FOGYH" \in DOMAIN resp.json.f.FogyHely.f
    /\ resp.json.f.FogyHely.f.T_FOGYH.t = "list"
    /\ \A i \in 1..Len(resp.json.f.FogyHely.f.T_FOGYH.l) :
           /\ resp.json.f.FogyHely.f.T_FOGYH.l[i].t = "obj"
           /\ {"FOGYH_MN", "ANLAGE", "SERGE"}
                  \subseteq DOMAIN resp.json.f.FogyHely.f.T_FOGYH.l[i].f

\* Such an answer's records, each as the LocationAndMeter it stands for.
MetersOf(resp) ==
    [i \in 1..Len(resp.json.f.FogyHely.f.T_FOGYH.l) |->
        [location_name |-> resp.json.f.FogyHely.f.T_FOGYH.l[i].f.FOGYH_MN,
         location_id |-> resp.json.f.FogyHely.f.T_FOGYH.l[i].f.ANLAGE,
         meter_serial_number |-> resp.json.f.FogyHely.f.T_FOGYH.l[i].f.SERGE]]

\* C19: after a successful login, get_locations_and_meters returns the list
\* with, at each position, the LocationAndMeter of the record at that position
\* of FogyHely.T_FOGYH: name from FOGYH_MN, id from ANLAGE, serial number from
\* SERGE.
C19_LocationsMapped ==
    \A o \in DirectFrames :
        (/\ ops[o].handler = "get_locations_and_meters" /\ ops[o].pc = "done"
         /\ Len(LogOf(o)) = 4 /\ IsLocationsAnswer(LogOf(o)[4].resp))
            => ops[o].outcome = Return(PyList(MetersOf(LogOf(o)[4].resp)))

\* C19 witness: three records, the first and the last alike, came back as
\* three meters in that order.
C19_Witness ==
    \E o \in DirectFrames :
        /\ ops[o].handler = "get_locations_and_meters" /\ ops[o].pc = "done"
        /\ Returned(ops[o].outcome) /\ ops[o].outcome.v.t = "list"
        /\ Len(ops[o].outcome.v.l) = 3
        /\ ops[o].outcome.v.l[1] = ops[o].outcome.v.l[3]
        /\ ops[o].outcome.v.l[2] =
               LocationAndMeter(Chars2("N", "1"), Chars2("A", "1"), Chars2("S", "1"))

\* C20 (as claimed): the entity's stored reading times are always a list.
C20_StoredTimesIsList == entity.times.t = "list"

\* The slots whose frame is a call of an entity method.
EntityFrames == {o \in Slots : ops[o].handler \in {"async_update", "async_get_events"}}

\* C15: a refresh whose controller call raises leaves the entity's stored
\* reading times and its event as they were: no step of a running refresh
\* changes them unless the controller call has returned.
C15_FailedRefreshKeepsData ==
    [][\A o \in EntityFrames :
          (/\ ops[o].pc \notin {"idle", "done"}
           /\ ~(ops'[o].pc = "done" /\ ops'[o].result.k = "return"))
              => (entity'.times = entity.times /\ entity'.event = entity.event)]_vars

\* C15 witness: a refresh has failed on an entity that holds reading times
\* and an event from an earlier refresh.
C15_Witness ==
    \E o \in EntityFrames :
        /\ ops[o].pc = "done" /\ Raised(ops[o].result)
        /\ entity.times.t = "list" /\ Len(entity.times.l) > 0
        /\ entity.event # None

\* C16: the times at which the entity called the controller's
\* get_dictation_and_reading_times are at least 7 days apart; a call of an
\* entity method that opened a session is the latest of them, and one that did
\* not (it reused the stored list) came within 7 days of one of them.
C16_UpdatesSevenDaysApart ==
    /\ \A i, j \in 1..Len(entity.calls) :
           i < j => entity.calls[j] - entity.calls[i] >= 7 * TicksPerDay
    /\ \A o \in EntityFrames :
           IF ops[o].session # 0
           THEN /\ Len(entity.calls) > 0
                /\ ops[o].at = entity.calls[Len(entity.calls)]
           ELSE \E i \in 1..Len(entity.calls) :
                     /\ entity.calls[i] <= ops[o].at
                     /\ ops[o].at - entity.calls[i] <= 7 * TicksPerDay

\* C16 witness: the entity called the controller twice, and a later call was
\* answered from the stored list.
C16_Witness ==
    /\ Len(entity.calls) = 2
    /\ \E o \in EntityFrames : ops[o].pc = "done" /\ ops[o].session = 0

\* C18: the token sent with the data POST of get_dictation_and_reading_times
\* is the one extracted from the priming page fetched just before it in the
\* same call, not the token sent at login.
C18_DataPostTokenIsFresh ==
    \A o \in SessionFrames :
        (Len(LogOf(o)) >= 5 /\ LogOf(o)[5].req.url = "data_post")
            => /\ LogOf(o)[4].req.url = "priming_get"
               /\ LogOf(o)[5].req.token = re_search(LogOf(o)[4].resp.text)
               /\ LogOf(o)[5].req.token # LogOf(o)[3].req.token

\* C18 witness: a data POST went out with the token "b" of the priming page
\* after a login with the token "a".
C18_Witness ==
    \E o \in SessionFrames :
        /\ Len(LogOf(o)) = 5
        /\ LogOf(o)[3].req.token = PyStr(<<Input("a")>>)
        /\ LogOf(o)[5].req.token = PyStr(<<Input("b")>>)

\* The number of requests an operation has sent when it is at pc.
Progress(pc) ==
    CASE pc = "get_root_page" -> 0
      [] pc = "post_login_get" -> 1
      [] pc = "post_login_post" -> 2
      [] pc \in {"locations_get", "priming_get"} -> 3
      [] pc = "data_post" -> 4

\* C17: with operations running together, no two of them hold the same
\* session, the requests on an operation's session are that operation's own
\* (its handshake as far as it has got, and nothing else), and no request is
\* added to a session once it is closed.
C17_SessionsNotShared ==
    /\ [](\A o \in SessionFrames :
            /\ \A q \in SessionFrames : q # o => ops[q].session # ops[o].session
            /\ IsPrefix(Urls(LogOf(o)), Handshake(ops[o].handler))
            /\ ops[o].pc # "done" => /\ Len(LogOf(o)) = Progress(ops[o].pc)
                                     /\ sessions[ops[o].session].open)
    /\ [][\A sid \in DOMAIN sessions :
             ~sessions[sid].open => sessions'[sid].log = sessions[sid].log]_vars

\* C17 witness: two operations are under way at once, each having sent
\* requests on its session.
C17_Witness ==
    /\ \A o \in Slots : ops[o].pc \notin {"idle", "done"} /\ Len(LogOf(o)) >= 2
    /\ Cardinality({ops[o].session : o \in Slots}) = 2

\* The login POSTs a frame has sent carry the credentials c.
LoginsCarry(o, c) ==
    \A i \in 1..Len(LogOf(o)) :
        LogOf(o)[i].req.url = "login_post" => LogOf(o)[i].req.credentials = c

\* C21: across set-ups of entries and password reconfigurations the registry
\* holds one controller per username, filed under its own username; a
\* registered controller is never replaced or removed; a controller is
\* registered with the data its entry has at that set-up; and the portal
\* logins of a registered controller carry the credentials it was registered
\* with, whatever the entry's password has become since.
C21_FirstRegistrationKept ==
    /\ [](/\ DOMAIN hass.controllers \subseteq DOMAIN hass.entries
          /\ \A u \in DOMAIN hass.controllers : hass.controllers[u].username = u
          /\ \A o \in DirectFrames :
                /\ ops[o].args.username \in DOMAIN hass.controllers
                /\ ops[o].args = hass.controllers[ops[o].args.username]
                /\ LoginsCarry(o, hass.controllers[ops[o].args.username]))
    /\ [][\A u \in Usernames :
             IF u \in DOMAIN hass.controllers
             THEN /\ u \in DOMAIN hass'.controllers
                  /\ hass'.controllers[u] = hass.controllers[u]
             ELSE u \in DOMAIN hass'.controllers
                    => hass'.controllers[u] = FvmController(u, hass.entries[u])]_vars

\* C21 witness: both usernames are registered, the password of an entry was
\* reconfigured after its controller was registered, and at a later set-up of
\* that entry the controller has logged in with the password it was
\* registered with.
C21_Witness ==
    /\ DOMAIN hass.controllers = Usernames
    /\ \E o \in DirectFrames :
          /\ hass.entries[ops[o].args.username] # ops[o].args.password
          /\ Len(LogOf(o)) >= 3
          /\ LogOf(o)[3].req.credentials = hass.controllers[ops[o].args.username]

\* The slots whose frame is a step of a config or options flow.
FlowFrames == {o \in Slots : ops[o].handler \in FlowHandlers}

\* What a flow step returns once the login with its input has succeeded.
Accepted(handler) ==
    IF handler = "async_step_user" THEN FlowResult("create_entry", "")
    ELSE FlowResult("abort", "reconfigure_successful")

\* C22: the stored configuration changes only at the step at which a flow
\* ends with post_login having returned true (a value the flow's "if not"
\* takes as true) to the POST of exactly the flow's credentials, and then
\* it becomes those credentials, the config flow returning create_entry and
\* the options flow reconfigure_successful; a flow whose post_login returned
\* false ends with the form and the invalid_username_or_password error, the
\* stored configuration unchanged.
C22_EntryOnlyAfterLogin ==
    /\ [](\A o \in FlowFrames :
            (ops[o].pc = "done" /\ ops[o].outcome = Return(Accepted(ops[o].handler)))
              => /\ Returned(ops[o].login) /\ Truthy(ops[o].login.v)
                 /\ Len(LogOf(o)) = 2
                 /\ LogOf(o)[2].req.url = "login_post"
                 /\ LogOf(o)[2].req.credentials = ops[o].args)
    /\ [][/\ hass'.entries # hass.entries
               => \E o \in FlowFrames :
                     /\ ops[o].pc = "post_login_post" /\ ops'[o].pc = "done"
                     /\ ops'[o].outcome = Return(Accepted(ops[o].handler))
                     /\ hass'.entries =
                          (ops[o].args.username :> ops[o].args.password) @@ hass.entries
          /\ \A o \in FlowFrames :
                (/\ ops[o].pc # "done" /\ ops'[o].pc = "done"
                 /\ Returned(ops'[o].login) /\ ~Truthy(ops'[o].login.v))
                  => /\ ops'[o].outcome =
                          Return(FlowResult("form", "invalid_username_or_password"))
                     /\ hass' = hass]_vars

\* C22 witness: an options flow has ended with reconfigure_successful and the
\* entry holds the new password, which is not the one its controller was
\* registered with.
C22_Witness ==
    \E o \in FlowFrames :
        /\ ops[o].handler = "async_step_init" /\ ops[o].pc = "done"
        /\ ops[o].outcome = Return(Accepted("async_step_init"))
        /\ hass.entries[ops[o].args.username] = ops[o].args.password
        /\ ops[o].args.username \in DOMAIN hass.controllers
        /\ hass.controllers[ops[o].args.username].password # ops[o].args.password

====
